---- MODULE Spec2Model ----
(***************************************************************************)
(* A model of pyHEP: FourMomentum (src/pyhep/fourmomentum.py), Particle    *)
(* and the leptons (src/pyhep/particles.py), Event / GenEvent              *)
(* (src/pyhep/event.py), EventCollection (src/pyhep/storage.py) and the    *)
(* Les Houches event reader (src/LesHouchesEvents.py).                     *)
(*                                                                         *)
(* Numbers are integers.  math.sqrt is the integer square root, exact on   *)
(* perfect squares and rounded down otherwise; it raises ValueError on a   *)
(* negative argument as math.sqrt does.  Python lists are objects of a     *)
(* heap, so that two references to one list are visible as aliases.        *)
(***************************************************************************)
EXTENDS Integers, Sequences, FiniteSets, TLC

(* ------------------------------ bounds -------------------------------- *)
\* longest particle list the model lets an event grow to
MaxLen == 2
\* number of list objects the heap may hold
MaxLists == 2
\* largest |x|, |y|, |z| a FourMomentum write may produce in the model
MaxCoord == 5

(* ------------------------- arithmetic (math) -------------------------- *)
\* math.sqrt on a non-negative argument
Sqrt(n) == CHOOSE r \in 0..n : r * r <= n /\ n < (r + 1) * (r + 1)

Abs(n) == IF n < 0 THEN -n ELSE n

\* a value returned, or an exception raised
Ok(v) == [v |-> v, ok |-> TRUE, exc |-> ""]
Raise(e) == [v |-> 0, ok |-> FALSE, exc |-> e]

(* --------------------------- FourMomentum ----------------------------- *)
\* FourMomentum(): the stored state is x, y, z and the mass _m
FourMomentum == [x |-> 0, y |-> 0, z |-> 0, m |-> 0]

\* a faulty from_x_y_z_m: x and y change places
from_x_y_z_m_swapped(x, y, z, m) ==
    [[[[FourMomentum EXCEPT !.x = y] EXCEPT !.y = x] EXCEPT !.z = z] EXCEPT !.m = m]

from_x_y_z_m(x, y, z, m) ==
    [[[[FourMomentum EXCEPT !.x = x] EXCEPT !.y = y] EXCEPT !.z = z] EXCEPT !.m = m]

\* m = sqrt(e**2-x**2-y**2-z**2): ValueError below zero
from_x_y_z_e(x, y, z, e) ==
    LET m2 == e * e - x * x - y * y - z * z
    IN  IF m2 < 0 THEN Raise("ValueError")
        ELSE Ok(from_x_y_z_m(x, y, z, Sqrt(m2)))

\* the getters px, py, pz, mass, p, energy
px(a) == a.x
py(a) == a.y
pz(a) == a.z
mass(a) == a.m
p(a) == Sqrt(a.x * a.x + a.y * a.y + a.z * a.z)
energy(a) == Sqrt(mass(a) * mass(a) + p(a) * p(a))

\* __add__
add(a, b) ==
    from_x_y_z_e(a.x + b.x, a.y + b.y, a.z + b.z, energy(a) + energy(b))

\* the builtin sum(seq, start) over FourMomenta: start + seq[1] + seq[2] ...
RECURSIVE sum(_, _)
sum(seq, start) ==
    IF seq = << >> THEN Ok(start)
    ELSE LET r == add(start, Head(seq))
         IN  IF r.ok THEN sum(Tail(seq), r.v) ELSE r

\* __mul__: every component and the energy times the scalar
mul(a, scalar) ==
    from_x_y_z_e(a.x * scalar, a.y * scalar, a.z * scalar, energy(a) * scalar)

\* __rmul__: return self*scalar
rmul(a, scalar) == mul(a, scalar)

\* __neg__: from_x_y_z_m(-self.x, -self.y, -self.z, self._m)
neg(a) == from_x_y_z_m(-a.x, -a.y, -a.z, a.m)

\* __sub__: return self + -other
sub(a, b) == add(a, neg(b))

\* __iadd__, __isub__, __imul__: return self + other, self - other, self*scalar
iadd(a, b) == add(a, b)
isub(a, b) == sub(a, b)
imul(a, scalar) == mul(a, scalar)

\* __eq__: componentwise on x, y, z and _m
eq(a, b) == (a.x = b.x) /\ (a.y = b.y) /\ (a.z = b.z) /\ (a.m = b.m)

(* ------------------------- angles and ratios -------------------------- *)
\* An angle is kept as a direction: [c, s] stands for atan2(s, c), so that
\* cos is c / Hyp and sin is s / Hyp.  Eta is kept as the ratio
\* exp(-eta) = n / d.
Hyp(a) == Sqrt(a.c * a.c + a.s * a.s)

\* a * num / den in floating point, rounded towards zero
MulDiv(a, num, den) ==
    IF a * num >= 0 THEN (a * num) \div den ELSE -((-(a * num)) \div den)

\* value * sin(angle) and value * cos(angle)
TimesSin(value, a) == MulDiv(value, a.s, Hyp(a))
TimesCos(value, a) == MulDiv(value, a.c, Hyp(a))
\* value * abs(sin(angle))
TimesAbsSin(value, a) == MulDiv(value, Abs(a.s), Hyp(a))

\* value * tan(angle), for an angle off the y axis
TimesTan(value, a) ==
    IF a.c > 0 THEN MulDiv(value, a.s, a.c) ELSE -MulDiv(value, a.s, -a.c)

\* math.atan2(y, x); atan2(0, 0) is 0
atan2(y, x) == IF x = 0 /\ y = 0 THEN [c |-> 1, s |-> 0] ELSE [c |-> x, s |-> y]

(* ----------------------- FourMomentum: setters ------------------------ *)
\* A write returns the vector it leaves behind and the exception raised
\* ("" when it returns): a setter that fails half way keeps what it wrote.
Wrote(a) == [p4 |-> a, exc |-> ""]
Failed(a, e) == [p4 |-> a, exc |-> e]

\* the getters pt, phi, theta
pt(a) == Sqrt(a.x * a.x + a.y * a.y)
phi(a) == atan2(py(a), px(a))
\* acos(self.z/self.p): ZeroDivisionError when p is zero
theta(a) ==
    IF p(a) = 0 THEN Raise("ZeroDivisionError")
    ELSE Ok([c |-> a.z, s |-> Sqrt(p(a) * p(a) - a.z * a.z)])

px_setter(a, value) == Wrote([a EXCEPT !.x = value])
py_setter(a, value) == Wrote([a EXCEPT !.y = value])
pz_setter(a, value) == Wrote([a EXCEPT !.z = value])

\* a faulty mass_setter: the write goes through
mass_setter_assigns(a, value) == Wrote([a EXCEPT !.m = value])

\* mass.setter: raise NotImplementedError
mass_setter(a, value) == Failed(a, "NotImplementedError")

\* a faulty energy_setter: a negative value is not turned away
energy_setter_unchecked(a, value) ==
    IF value * value - mass(a) * mass(a) < 0 THEN Failed(a, "ValueError")
    ELSE LET new_p == Sqrt(value * value - mass(a) * mass(a))
             old_p == p(a)
         IN  IF old_p = 0 THEN Failed(a, "ZeroDivisionError")
             ELSE Wrote([a EXCEPT !.x = MulDiv(a.x, new_p, old_p),
                                  !.y = MulDiv(a.y, new_p, old_p),
                                  !.z = MulDiv(a.z, new_p, old_p)])

\* energy.setter
energy_setter(a, value) ==
    IF value < 0 THEN Failed(a, "ValueError")
    ELSE IF value * value - mass(a) * mass(a) < 0 THEN Failed(a, "ValueError")
    ELSE LET new_p == Sqrt(value * value - mass(a) * mass(a))
             old_p == p(a)
         IN  IF old_p = 0 THEN Failed(a, "ZeroDivisionError")
             ELSE Wrote([a EXCEPT !.x = MulDiv(a.x, new_p, old_p),
                                  !.y = MulDiv(a.y, new_p, old_p),
                                  !.z = MulDiv(a.z, new_p, old_p)])

\* pt.setter: px = value*sin(phi), py = value*cos(phi), then the energy
\* is set to sqrt(p**2 + mass**2)
pt_setter(a, value) ==
    IF value < 0 THEN Failed(a, "ValueError")
    ELSE LET ph == phi(a)
             b == [a EXCEPT !.x = TimesSin(value, ph), !.y = TimesCos(value, ph)]
         IN  energy_setter(b, Sqrt(p(b) * p(b) + mass(b) * mass(b)))

\* p.setter: theta is read first, then pt and pz are written
p_setter(a, value) ==
    LET th == theta(a)
    IN  IF ~th.ok THEN Failed(a, th.exc)
        ELSE LET r == pt_setter(a, TimesAbsSin(value, th.v))
             IN  IF r.exc # "" THEN r
                 ELSE pz_setter(r.p4, TimesCos(value, th.v))

\* phi.setter: x = pt*sin(value), y = pt*cos(value)
phi_setter(a, value) ==
    LET t == pt(a)
    IN  Wrote([a EXCEPT !.x = TimesSin(t, value), !.y = TimesCos(t, value)])

\* theta.setter
theta_setter(a, value) ==
    LET mom == p(a)
        r == pt_setter(a, TimesAbsSin(mom, value))
    IN  IF r.exc # "" THEN r
        ELSE pz_setter(r.p4, TimesCos(mom, value))

\* theta = 2*atan(-exp(value)) lies in (-pi, 0); the loops add pi once.
\* With exp(-value) = n/d this is the angle of cosine (d*d - n*n) and sine
\* 2*n*d over n*n + d*d.
EtaToTheta(eta) ==
    [c |-> eta.d * eta.d - eta.n * eta.n, s |-> 2 * eta.n * eta.d]

\* eta.setter
eta_setter(a, value) == theta_setter(a, EtaToTheta(value))

\* the getter eta: -log(tan(theta/2)), kept as exp(-eta) = tan(theta/2)
\* = sin(theta) / (1 + cos(theta)); log(0) raises ValueError
eta(a) ==
    LET th == theta(a)
    IN  IF ~th.ok THEN th
        ELSE IF th.v.s = 0 /\ th.v.c > 0 THEN Raise("ValueError")
        ELSE IF th.v.s = 0 THEN Ok([n |-> 1, d |-> 0])
        ELSE Ok([n |-> th.v.s, d |-> Hyp(th.v) + th.v.c])

(* -------------------- FourMomentum: constructors ---------------------- *)
\* x = pt*sin(phi); y = pt*sin(phi); z = pt*tan(theta)
from_pt_theta_phi_m(pT, th, ph, m) ==
    LET x == TimesSin(pT, ph)
        y == TimesSin(pT, ph)
        z == TimesTan(pT, th)
    IN  Ok(from_x_y_z_m(x, y, z, m))

from_pt_theta_phi_e(pT, th, ph, e) ==
    LET x == TimesSin(pT, ph)
        y == TimesSin(pT, ph)
        z == TimesTan(pT, th)
    IN  from_x_y_z_e(x, y, z, e)

\* as above with theta = 2*atan(-exp(eta)) brought into (0, pi)
from_pt_eta_phi_m(pT, h, ph, m) ==
    LET x == TimesSin(pT, ph)
        y == TimesSin(pT, ph)
        z == TimesTan(pT, EtaToTheta(h))
    IN  Ok(from_x_y_z_m(x, y, z, m))

from_pt_eta_phi_e(pT, h, ph, e) ==
    LET x == TimesSin(pT, ph)
        y == TimesSin(pT, ph)
        z == TimesTan(pT, EtaToTheta(h))
    IN  from_x_y_z_e(x, y, z, e)

(* ----------------------------- Particle ------------------------------- *)
\* Particle.__init__: p4, pdgID, charge; no status attribute
Particle(p4, pdgID, charge) ==
    [p4 |-> p4, pdgID |-> pdgID, charge |-> charge,
     hasStatus |-> FALSE, status |-> 0]

\* GenParticle.__init__: Particle plus the generator status
GenParticle(p4, pdgID, charge, status) ==
    [[Particle(p4, pdgID, charge) EXCEPT !.hasStatus = TRUE] EXCEPT !.status = status]

\* a faulty Lepton.__init__ that takes any charge
Lepton_unchecked(p4, pdgID, charge) ==
    LET q == Particle(p4, pdgID, charge)
    IN  Ok([p4 |-> q.p4, pdgID |-> q.pdgID, charge |-> q.charge,
            hasStatus |-> q.hasStatus, status |-> q.status,
            hasIsolation |-> TRUE, isolation |-> 0])

\* Lepton.__init__: ValueError unless the charge is -1 or 1, then
\* Particle.__init__ and self.isolation = 0.
Lepton(p4, pdgID, charge) ==
    IF charge \notin {-1, 1} THEN Raise("ValueError")
    ELSE LET q == Particle(p4, pdgID, charge)
         IN  Ok([p4 |-> q.p4, pdgID |-> q.pdgID, charge |-> q.charge,
                 hasStatus |-> q.hasStatus, status |-> q.status,
                 hasIsolation |-> TRUE, isolation |-> 0])

\* Electron.__init__ and Muon.__init__: Lepton.__init__ with code 11 and 13
Electron(p4, charge) == Lepton(p4, 11, charge)
Muon(p4, charge) == Lepton(p4, 13, charge)

\* lepton.isolation and lepton.isolation = value: plain attribute access
get_isolation(lepton) ==
    IF lepton.hasIsolation THEN Ok(lepton.isolation) ELSE Raise("AttributeError")
set_isolation(lepton, value) ==
    [[lepton EXCEPT !.hasIsolation = TRUE] EXCEPT !.isolation = value]

\* the particles the caller has at hand
Catalogue ==
    { Particle(from_x_y_z_m(3, 4, 0, 0), 11, -1),
      GenParticle(from_x_y_z_m(1, 2, 2, 4), -11, 1, 3),
      GenParticle(from_x_y_z_m(-3, -4, 0, 0), 12, 0, 1),
      GenParticle(from_x_y_z_m(0, -3, -4, 0), -12, 0, 1) }

\* the particle lists the caller builds before handing them to an event
CallerLists ==
    { << >>,
      <<Particle(from_x_y_z_m(3, 4, 0, 0), 11, -1)>>,
      <<GenParticle(from_x_y_z_m(-3, -4, 0, 0), 12, 0, 1)>> }

(* ------------------------------- Event -------------------------------- *)
VARIABLES
    heap,        \* the list objects: heap[i] is the content of list i
    callerLists, \* the lists built by the caller, who keeps a reference
    events,      \* the constructed events: cls, particles_ (a list), metadata
    op,          \* the last call made
    ret,         \* what it returned
    err          \* the exception it raised, "" when it returned

None == 0

\* the metadata argument: None, or a dict of the caller (kept as its items)
NoMetadata == <<"None">>
Metadata == { NoMetadata, <<"run", "1">> }

\* selection functions handed to Event.particles: None, or one of the two
\* module filters bound by functools.partial
SelNone == [f |-> "None", arg |-> 0]
Selections == { SelNone, [f |-> "status", arg |-> 1] }

\* species codes asked of particles_with_pdgID
Codes == {11, -11}

\* exclusion lists given to met; the first is the default argument
DefaultIgnore == {12, 14, 16}
IgnoreLists == { DefaultIgnore, {11} }

\* a faulty _filter_by_pdgId: the sign of the code is compared too
filter_by_pdgId_signed(particle, pdgId) == Ok(particle.pdgID = pdgId)

\* _filter_by_pdgId
_filter_by_pdgId(particle, pdgId) == Ok(Abs(particle.pdgID) = pdgId)

\* a faulty _filter_by_status: any status passes
filter_by_status_any(particle, status) ==
    IF particle.hasStatus THEN Ok(TRUE) ELSE Raise("AttributeError")

\* _filter_by_status: particle.status raises AttributeError when absent
_filter_by_status(particle, status) ==
    IF particle.hasStatus THEN Ok(particle.status = status)
    ELSE Raise("AttributeError")

\* calling a selection function on a particle
Call(sel, particle) ==
    IF sel.f = "pdgId" THEN _filter_by_pdgId(particle, sel.arg)
    ELSE _filter_by_status(particle, sel.arg)

\* the builtin filter(function, list): a new list of the items for which
\* the function is true, in order; an exception of the function propagates
RECURSIVE filter(_, _)
filter(sel, seq) ==
    IF seq = << >> THEN Ok(<< >>)
    ELSE LET t == Call(sel, Head(seq))
         IN  IF ~t.ok THEN t
             ELSE LET r == filter(sel, Tail(seq))
                  IN  IF ~r.ok THEN r
                      ELSE IF t.v THEN Ok(<<Head(seq)>> \o r.v) ELSE r

\* Event.__init__: particles_ is a new list, or the caller's list itself;
\* metadata is a new dict, or the caller's
Event_init(h, cls, particles, metadata) ==
    LET md == IF metadata = NoMetadata THEN << >> ELSE metadata
    IN  IF particles = None
        THEN [heap |-> Append(h, << >>),
              event |-> [cls |-> cls, particles_ |-> Len(h) + 1, metadata |-> md]]
        ELSE [heap |-> h,
              event |-> [cls |-> cls, particles_ |-> particles, metadata |-> md]]

\* GenEvent.__init__: super().__init__(*args)
GenEvent_init(h, cls, particles, metadata) == Event_init(h, cls, particles, metadata)

\* a faulty Event_particles: the selection function is not applied
Event_particles_unfiltered(h, ev, sel) ==
    Ok([alias |-> ev.particles_, list |-> h[ev.particles_]])

\* Event.particles: the list itself without a selection function
Event_particles(h, ev, sel) ==
    IF sel = SelNone
    THEN Ok([alias |-> ev.particles_, list |-> h[ev.particles_]])
    ELSE LET r == filter(sel, h[ev.particles_])
         IN  IF r.ok THEN Ok([alias |-> None, list |-> r.v]) ELSE r

\* Event.particles_with_pdgID
Event_particles_with_pdgID(h, ev, pdgId) ==
    Event_particles(h, ev, [f |-> "pdgId", arg |-> pdgId])

\* the methods class Event defines (GenEvent inherits them)
EventAttributes ==
    { "particles", "particles_with_pdgID", "electrons", "muons", "met",
      "add_particle" }

\* Event.electrons: self.particles_with_pdgId(11); the attribute is looked
\* up on the event first
Event_electrons(h, ev) ==
    IF "particles_with_pdgId" \in EventAttributes
    THEN Event_particles_with_pdgID(h, ev, 11)
    ELSE Raise("AttributeError")

\* Event.muons: self.particles_with_pdgId(13)
Event_muons(h, ev) ==
    IF "particles_with_pdgId" \in EventAttributes
    THEN Event_particles_with_pdgID(h, ev, 13)
    ELSE Raise("AttributeError")

\* [p.p4 for p in particles if p.pdgID not in pdgIDs_to_ignore]
RECURSIVE P4sNotIgnored(_, _)
P4sNotIgnored(seq, pdgIDs_to_ignore) ==
    IF seq = << >> THEN << >>
    ELSE IF Head(seq).pdgID \notin pdgIDs_to_ignore
         THEN <<Head(seq).p4>> \o P4sNotIgnored(Tail(seq), pdgIDs_to_ignore)
         ELSE P4sNotIgnored(Tail(seq), pdgIDs_to_ignore)

\* Event.met
Event_met(h, ev, pdgIDs_to_ignore) ==
    LET ps == Event_particles(h, ev, SelNone)
    IN  sum(P4sNotIgnored(ps.v.list, pdgIDs_to_ignore), FourMomentum)

\* GenEvent.met
GenEvent_met(h, ev, pdgIDs_to_ignore) ==
    LET status_filter == [f |-> "status", arg |-> 1]
        ps == Event_particles(h, ev, status_filter)
    IN  IF ~ps.ok THEN ps
        ELSE sum(P4sNotIgnored(ps.v.list, pdgIDs_to_ignore), FourMomentum)

\* a faulty Event_add_particle: the particle is put in front
Event_add_particle_front(h, ev, particle) ==
    Ok([h EXCEPT ![ev.particles_] = <<particle>> \o @])

\* Event.add_particle: self.particles_.append(particle)
Event_add_particle(h, ev, particle) ==
    Ok([h EXCEPT ![ev.particles_] = Append(@, particle)])

\* a faulty GenEvent_add_particle: the status is not asked for
GenEvent_add_particle_unchecked(h, ev, particle) ==
    Ok([h EXCEPT ![ev.particles_] = Append(@, particle)])

\* GenEvent.add_particle: ValueError for a particle without a status
GenEvent_add_particle(h, ev, particle) ==
    IF ~particle.hasStatus THEN Raise("ValueError")
    ELSE Ok([h EXCEPT ![ev.particles_] = Append(@, particle)])

(* ------------------------ the calls of a program ---------------------- *)
VARIABLES
    p4,     \* a FourMomentum object under a sequence of writes
    m0,     \* the mass it was constructed with
    p4op,   \* the last write: the property and the value assigned
    p4err,  \* the exception that write raised, "" when it returned
    a4,     \* the FourMomentum a program constructed last
    b4,     \* another FourMomentum it holds
    aop,    \* the last constructor call or arithmetic operation
    aret,   \* what it returned, or the exception it raised
    objs,   \* the FourMomentum objects of a program, by identity
    names,  \* the object each name of the program refers to
    fop,    \* the last operator the program applied, and its outcome
    lepton,      \* the lepton a program constructed last
    bound,       \* whether a lepton has been constructed
    assigned,    \* whether its isolation was assigned since construction
    lop,         \* the last call on leptons, and its outcome
    lheFile,     \* the elements of the file an LHEventReader is built from
    max_events,  \* its max_events argument
    reader,      \* the LHEventReader under construction: init and events
    lhePos,      \* the number of elements the constructor has been through
    lheStatus,   \* "reading", "returned", or the exception that ended it
    coll,        \* an EventCollection: store and events_since_save
    committed,   \* the content of the store as of the last commit
    sop          \* the last call on the collection

NoParticle == Particle(FourMomentum, 0, 0)
NoCall == [name |-> "", ev |-> 0, part |-> NoParticle, sel |-> SelNone,
           code |-> 0, ign |-> {}]
RetNone == [kind |-> "None", alias |-> None, list |-> << >>, p4 |-> FourMomentum]
RetList(v) == [RetNone EXCEPT !.kind = "list", !.alias = v.alias, !.list = v.list]
RetP4(v) == [RetNone EXCEPT !.kind = "p4", !.p4 = v]
NoAngle == [c |-> 1, s |-> 0]
NoEta == [n |-> 1, d |-> 1]
NoWrite == [name |-> "", value |-> 0, angle |-> NoAngle, eta |-> NoEta]

\* the record of a constructor call or an arithmetic operation, before any
NoArith == [name |-> "", k |-> 0, x |-> 0, y |-> 0, z |-> 0, w |-> 0,
            pT |-> 0, theta |-> NoAngle, phi |-> NoAngle, eta |-> NoEta]
\* what a call that makes a FourMomentum gave: the vector, or the exception
Result(r) == IF r.ok THEN r ELSE [r EXCEPT !.v = FourMomentum]

eventVars == <<heap, callerLists, events, op, ret, err>>
p4Vars == <<p4, m0, p4op, p4err>>
arithVars == <<a4, b4, aop, aret>>
objVars == <<objs, names, fop>>
lepVars == <<lepton, bound, assigned, lop>>
lheVars == <<lheFile, max_events, reader, lhePos, lheStatus>>
collVars == <<coll, committed, sop>>
moreVars == <<objVars, lepVars, lheVars, collVars>>
vars == <<heap, callerLists, events, op, ret, err, p4, m0, p4op, p4err,
          a4, b4, aop, aret, moreVars>>

\* the members of a constructed event
Members(h, ev) == h[ev.particles_]

InitEvents ==
    /\ heap = << >>
    /\ callerLists = {}
    /\ events = << >>
    /\ op = NoCall
    /\ ret = RetNone
    /\ err = ""

InitP4 ==
    /\ p4 = FourMomentum
    /\ m0 = 0
    /\ p4op = NoWrite
    /\ p4err = ""

InitArith ==
    /\ a4 = FourMomentum
    /\ b4 = FourMomentum
    /\ aop = NoArith
    /\ aret = Ok(FourMomentum)

\* no name bound to a FourMomentum object, no operator applied
NoNames == [a |-> 0, b |-> 0, c |-> 0, held |-> 0]
NoOperator == [name |-> "", k |-> 0, id |-> 0, exc |-> ""]

InitObjs ==
    /\ objs = << >>
    /\ names = NoNames
    /\ fop = NoOperator

\* no lepton constructed, no call made
NoLepton ==
    [p4 |-> FourMomentum, pdgID |-> 0, charge |-> 0, hasStatus |-> FALSE,
     status |-> 0, hasIsolation |-> FALSE, isolation |-> 0]
NoLeptonCall ==
    [name |-> "", cls |-> "", pdgID |-> 0, charge |-> 0, value |-> 0,
     got |-> 0, exc |-> ""]

InitLep ==
    /\ lepton = NoLepton
    /\ bound = FALSE
    /\ assigned = FALSE
    /\ lop = NoLeptonCall

\* LHEventReader.__init__ before its loop: self.init = None, self.events = []
NewReader == [hasInit |-> FALSE, init |-> << >>, events |-> << >>]

InitLhe ==
    /\ lheFile = << >>
    /\ max_events = None
    /\ reader = NewReader
    /\ lhePos = 0
    /\ lheStatus = "reading"

\* a root mapping without entries, and the collection open() leaves on it
EmptyStore == [k \in {} |-> ""]
Opened(root) == [store |-> root, events_since_save |-> 0]
NoStoreCall == [name |-> "", key |-> 0, event |-> ""]

InitColl ==
    /\ coll = Opened(EmptyStore)
    /\ committed = EmptyStore
    /\ sop = NoStoreCall

InitMore == InitObjs /\ InitLep /\ InitLhe /\ InitColl

\* no object constructed yet
Init == InitEvents /\ InitP4 /\ InitArith /\ InitMore

\* the caller builds a list: particles = [...]
NewList(content) ==
    /\ Len(heap) < MaxLists
    /\ heap' = Append(heap, content)
    /\ callerLists' = callerLists \cup {Len(heap) + 1}
    /\ op' = [NoCall EXCEPT !.name = "list"]
    /\ ret' = RetNone
    /\ err' = ""
    /\ UNCHANGED events
    /\ UNCHANGED p4Vars
    /\ UNCHANGED arithVars
    /\ UNCHANGED moreVars

\* Event(particles, metadata) or GenEvent(particles, metadata)
NewEvent(cls, particles, metadata) ==
    /\ particles = None => Len(heap) < MaxLists
    /\ LET r == IF cls = "GenEvent"
                THEN GenEvent_init(heap, cls, particles, metadata)
                ELSE Event_init(heap, cls, particles, metadata)
       IN  /\ heap' = r.heap
           /\ events' = Append(events, r.event)
    /\ op' = [NoCall EXCEPT !.name = "init", !.ev = Len(events) + 1]
    /\ ret' = RetNone
    /\ err' = ""
    /\ UNCHANGED callerLists
    /\ UNCHANGED p4Vars
    /\ UNCHANGED arithVars
    /\ UNCHANGED moreVars

\* events[e].add_particle(particle)
AddParticle(e, particle) ==
    /\ Len(Members(heap, events[e])) < MaxLen
    /\ LET r == IF events[e].cls = "GenEvent"
                THEN GenEvent_add_particle(heap, events[e], particle)
                ELSE Event_add_particle(heap, events[e], particle)
       IN  /\ heap' = IF r.ok THEN r.v ELSE heap
           /\ err' = r.exc
    /\ op' = [NoCall EXCEPT !.name = "add_particle", !.ev = e, !.part = particle]
    /\ ret' = RetNone
    /\ UNCHANGED <<callerLists, events>>
    /\ UNCHANGED p4Vars
    /\ UNCHANGED arithVars
    /\ UNCHANGED moreVars

\* events[e].particles(sel)
Particles(e, sel) ==
    /\ LET r == Event_particles(heap, events[e], sel)
       IN  /\ ret' = IF r.ok THEN RetList(r.v) ELSE RetNone
           /\ err' = r.exc
    /\ op' = [NoCall EXCEPT !.name = "particles", !.ev = e, !.sel = sel]
    /\ UNCHANGED <<heap, callerLists, events>>
    /\ UNCHANGED p4Vars
    /\ UNCHANGED arithVars
    /\ UNCHANGED moreVars

\* events[e].particles_with_pdgID(code)
ParticlesWithPdgID(e, code) ==
    /\ LET r == Event_particles_with_pdgID(heap, events[e], code)
       IN  /\ ret' = IF r.ok THEN RetList(r.v) ELSE RetNone
           /\ err' = r.exc
    /\ op' = [NoCall EXCEPT !.name = "particles_with_pdgID", !.ev = e, !.code = code]
    /\ UNCHANGED <<heap, callerLists, events>>
    /\ UNCHANGED p4Vars
    /\ UNCHANGED arithVars
    /\ UNCHANGED moreVars

\* events[e].electrons()
Electrons(e) ==
    /\ LET r == Event_electrons(heap, events[e])
       IN  /\ ret' = IF r.ok THEN RetList(r.v) ELSE RetNone
           /\ err' = r.exc
    /\ op' = [NoCall EXCEPT !.name = "electrons", !.ev = e]
    /\ UNCHANGED <<heap, callerLists, events>>
    /\ UNCHANGED p4Vars
    /\ UNCHANGED arithVars
    /\ UNCHANGED moreVars

\* events[e].muons()
Muons(e) ==
    /\ LET r == Event_muons(heap, events[e])
       IN  /\ ret' = IF r.ok THEN RetList(r.v) ELSE RetNone
           /\ err' = r.exc
    /\ op' = [NoCall EXCEPT !.name = "muons", !.ev = e]
    /\ UNCHANGED <<heap, callerLists, events>>
    /\ UNCHANGED p4Vars
    /\ UNCHANGED arithVars
    /\ UNCHANGED moreVars

\* events[e].met(ign)
Met(e, ign) ==
    /\ LET r == IF events[e].cls = "GenEvent"
                THEN GenEvent_met(heap, events[e], ign)
                ELSE Event_met(heap, events[e], ign)
       IN  /\ ret' = IF r.ok THEN RetP4(r.v) ELSE RetNone
           /\ err' = r.exc
    /\ op' = [NoCall EXCEPT !.name = "met", !.ev = e, !.ign = ign]
    /\ UNCHANGED <<heap, callerLists, events>>
    /\ UNCHANGED p4Vars
    /\ UNCHANGED arithVars
    /\ UNCHANGED moreVars

\* A program that builds lists and one event over them, grows the event
\* and queries it.
Next ==
    \/ \E content \in CallerLists : NewList(content)
    \/ \E cls \in {"Event", "GenEvent"}, l \in {None} \cup callerLists,
          md \in Metadata : events = << >> /\ NewEvent(cls, l, md)
    \/ \E e \in DOMAIN events, q \in Catalogue : AddParticle(e, q)
    \/ \E e \in DOMAIN events, sel \in Selections : Particles(e, sel)
    \/ \E e \in DOMAIN events, c \in Codes : ParticlesWithPdgID(e, c)
    \/ \E e \in DOMAIN events, ign \in IgnoreLists : Met(e, ign)
    \/ \E e \in DOMAIN events : Electrons(e)
    \/ \E e \in DOMAIN events : Muons(e)

Spec == Init /\ [][Next]_vars

\* A program that builds lists and two events over them, and grows both.
NextShared ==
    \/ \E content \in CallerLists : NewList(content)
    \/ \E cls \in {"Event", "GenEvent"}, l \in {None} \cup callerLists,
          md \in Metadata : Len(events) < 2 /\ NewEvent(cls, l, md)
    \/ \E e \in DOMAIN events, q \in Catalogue : AddParticle(e, q)

SpecShared == Init /\ [][NextShared]_vars

(* ----------------------- writes to a FourMomentum --------------------- *)
\* what the constructors are given, and what is written afterwards
Coords == {0, 3, 4}
Masses == {0, 5}
Energies == {5, 13}
Values == {-1, 0, 5}
Angles == { [c |-> 1, s |-> 0], [c |-> 0, s |-> -1], [c |-> 3, s |-> 4] }
Etas == { [n |-> 1, d |-> 1], [n |-> 1, d |-> 2] }

InRange(a) == Abs(a.x) <= MaxCoord /\ Abs(a.y) <= MaxCoord /\ Abs(a.z) <= MaxCoord

\* a FourMomentum from one of the Cartesian constructors
InitWrites ==
    /\ InitEvents
    /\ InitArith
    /\ InitMore
    /\ \E x \in Coords, y \in Coords, z \in Coords :
          \/ \E m \in Masses :
                /\ p4 = from_x_y_z_m(x, y, z, m)
                /\ p4op = [NoWrite EXCEPT !.name = "from_x_y_z_m"]
          \/ \E e \in Energies :
                /\ from_x_y_z_e(x, y, z, e).ok
                /\ p4 = from_x_y_z_e(x, y, z, e).v
                /\ p4op = [NoWrite EXCEPT !.name = "from_x_y_z_e"]
    /\ m0 = p4.m
    /\ p4err = ""

\* the state a write leaves: the vector, the call and its exception
Written(r, call) ==
    /\ InRange(r.p4)
    /\ p4' = r.p4
    /\ p4err' = r.exc
    /\ p4op' = call
    /\ UNCHANGED m0
    /\ UNCHANGED eventVars
    /\ UNCHANGED arithVars
    /\ UNCHANGED moreVars

SetPx(v) == Written(px_setter(p4, v), [NoWrite EXCEPT !.name = "px", !.value = v])
SetPy(v) == Written(py_setter(p4, v), [NoWrite EXCEPT !.name = "py", !.value = v])
SetPz(v) == Written(pz_setter(p4, v), [NoWrite EXCEPT !.name = "pz", !.value = v])
SetMass(v) == Written(mass_setter(p4, v), [NoWrite EXCEPT !.name = "mass", !.value = v])
SetP(v) == Written(p_setter(p4, v), [NoWrite EXCEPT !.name = "p", !.value = v])
SetEnergy(v) ==
    Written(energy_setter(p4, v), [NoWrite EXCEPT !.name = "energy", !.value = v])
SetPt(v) == Written(pt_setter(p4, v), [NoWrite EXCEPT !.name = "pt", !.value = v])
SetPhi(a) == Written(phi_setter(p4, a), [NoWrite EXCEPT !.name = "phi", !.angle = a])
SetTheta(a) ==
    Written(theta_setter(p4, a), [NoWrite EXCEPT !.name = "theta", !.angle = a])
SetEta(h) == Written(eta_setter(p4, h), [NoWrite EXCEPT !.name = "eta", !.eta = h])

NextWrites ==
    \/ \E v \in Values : SetPx(v)
    \/ \E v \in Values : SetPy(v)
    \/ \E v \in Values : SetPz(v)
    \/ \E v \in Values : SetMass(v)
    \/ \E v \in Values : SetP(v)
    \/ \E v \in Values : SetEnergy(v)
    \/ \E v \in Values : SetPt(v)
    \/ \E a \in Angles : SetPhi(a)
    \/ \E a \in Angles : SetTheta(a)
    \/ \E h \in Etas : SetEta(h)

SpecWrites == InitWrites /\ [][NextWrites]_vars

(* --------------- constructors and arithmetic of FourMomentum ---------- *)
\* what the constructors and the operators are called with
ArithCoords == {-4, 0, 3}
ArithMasses == {0, 5}
ArithEnergies == {5, 13}
Pts == {0, 5}
Thetas == { [c |-> 3, s |-> 4], [c |-> -4, s |-> 3] }
Phis == { [c |-> 1, s |-> 0], [c |-> 3, s |-> 4], [c |-> 0, s |-> -1] }
ArithEtas == { [n |-> 1, d |-> 2], [n |-> 2, d |-> 1] }
Scalars == {-1, 0, 2}

\* the second operand a program holds
Others ==
    { FourMomentum, from_x_y_z_m(0, 3, 3, 0), from_x_y_z_m(3, -4, 0, 5),
      from_x_y_z_m(-4, 0, 3, 0) }

InitArithmetic ==
    /\ InitEvents
    /\ InitP4
    /\ InitMore
    /\ a4 = FourMomentum
    /\ b4 \in Others
    /\ aop = NoArith
    /\ aret = Ok(FourMomentum)

\* a = FourMomentum.from_...(...): the name is bound when the call returns
Constructed(r, call) ==
    /\ a4' = IF r.ok THEN r.v ELSE a4
    /\ aret' = Result(r)
    /\ aop' = call
    /\ UNCHANGED b4
    /\ UNCHANGED eventVars
    /\ UNCHANGED p4Vars
    /\ UNCHANGED moreVars

\* an expression over a and b: the operands stay, the value is kept
Applied(r, call) ==
    /\ aret' = Result(r)
    /\ aop' = call
    /\ UNCHANGED <<a4, b4>>
    /\ UNCHANGED eventVars
    /\ UNCHANGED p4Vars
    /\ UNCHANGED moreVars

FromXYZM(x, y, z, m) ==
    Constructed(Ok(from_x_y_z_m(x, y, z, m)),
                [NoArith EXCEPT !.name = "from_x_y_z_m",
                                !.x = x, !.y = y, !.z = z, !.w = m])

FromXYZE(x, y, z, e) ==
    Constructed(from_x_y_z_e(x, y, z, e),
                [NoArith EXCEPT !.name = "from_x_y_z_e",
                                !.x = x, !.y = y, !.z = z, !.w = e])

FromPtThetaPhiM(pT, th, ph, m) ==
    Constructed(from_pt_theta_phi_m(pT, th, ph, m),
                [NoArith EXCEPT !.name = "from_pt_theta_phi_m",
                                !.pT = pT, !.theta = th, !.phi = ph, !.w = m])

FromPtThetaPhiE(pT, th, ph, e) ==
    Constructed(from_pt_theta_phi_e(pT, th, ph, e),
                [NoArith EXCEPT !.name = "from_pt_theta_phi_e",
                                !.pT = pT, !.theta = th, !.phi = ph, !.w = e])

FromPtEtaPhiM(pT, h, ph, m) ==
    Constructed(from_pt_eta_phi_m(pT, h, ph, m),
                [NoArith EXCEPT !.name = "from_pt_eta_phi_m",
                                !.pT = pT, !.eta = h, !.phi = ph, !.w = m])

FromPtEtaPhiE(pT, h, ph, e) ==
    Constructed(from_pt_eta_phi_e(pT, h, ph, e),
                [NoArith EXCEPT !.name = "from_pt_eta_phi_e",
                                !.pT = pT, !.eta = h, !.phi = ph, !.w = e])

\* FourMomentum.from_x_y_z_m(a.px, a.py, a.pz, a.mass)
Rebuild ==
    Applied(Ok(from_x_y_z_m(px(a4), py(a4), pz(a4), mass(a4))),
            [NoArith EXCEPT !.name = "rebuild"])

\* a + b
Add == Applied(add(a4, b4), [NoArith EXCEPT !.name = "add"])

\* a * k
Mul(k) == Applied(mul(a4, k), [NoArith EXCEPT !.name = "mul", !.k = k])

\* k * a
RMul(k) == Applied(rmul(a4, k), [NoArith EXCEPT !.name = "rmul", !.k = k])

NextArithmetic ==
    \/ \E x \in ArithCoords, y \in ArithCoords, z \in ArithCoords,
          m \in ArithMasses : FromXYZM(x, y, z, m)
    \/ \E x \in ArithCoords, y \in ArithCoords, z \in ArithCoords,
          e \in ArithEnergies : FromXYZE(x, y, z, e)
    \/ \E pT \in Pts, th \in Thetas, ph \in Phis, m \in ArithMasses :
          FromPtThetaPhiM(pT, th, ph, m)
    \/ \E pT \in Pts, th \in Thetas, ph \in Phis, e \in ArithEnergies :
          FromPtThetaPhiE(pT, th, ph, e)
    \/ \E pT \in Pts, h \in ArithEtas, ph \in Phis, m \in ArithMasses :
          FromPtEtaPhiM(pT, h, ph, m)
    \/ \E pT \in Pts, h \in ArithEtas, ph \in Phis, e \in ArithEnergies :
          FromPtEtaPhiE(pT, h, ph, e)
    \/ Rebuild
    \/ Add
    \/ \E k \in Scalars : Mul(k)
    \/ \E k \in Scalars : RMul(k)

SpecArithmetic == InitArithmetic /\ [][NextArithmetic]_vars

(* --------------- FourMomentum objects and their operators ------------- *)
\* number of FourMomentum objects the model lets a program allocate
MaxObjects == 5

\* a call that returns a new FourMomentum allocates it; one that raises
\* allocates nothing
NewObject(h, r) ==
    IF r.ok THEN [objs |-> Append(h, r.v), id |-> Len(h) + 1, exc |-> ""]
    ELSE [objs |-> h, id |-> 0, exc |-> r.exc]

\* self + other
FourMomentum_add(h, self, other) == NewObject(h, add(h[self], h[other]))

\* -self
FourMomentum_neg(h, self) == NewObject(h, Ok(neg(h[self])))

\* self - other: -other is evaluated first, then self + it
FourMomentum_sub(h, self, other) ==
    LET n == FourMomentum_neg(h, other)
    IN  FourMomentum_add(n.objs, self, n.id)

\* self * scalar and scalar * self
FourMomentum_mul(h, self, scalar) == NewObject(h, mul(h[self], scalar))
FourMomentum_rmul(h, self, scalar) == FourMomentum_mul(h, self, scalar)

\* a faulty __iadd__ that writes the sum into self and returns self
FourMomentum_iadd_in_place(h, self, other) ==
    LET r == add(h[self], h[other])
    IN  IF r.ok THEN [objs |-> [h EXCEPT ![self] = r.v], id |-> self, exc |-> ""]
        ELSE [objs |-> h, id |-> 0, exc |-> r.exc]

\* self += other, self -= other, self *= scalar: the method's return value
FourMomentum_iadd(h, self, other) == FourMomentum_add(h, self, other)
FourMomentum_isub(h, self, other) == FourMomentum_sub(h, self, other)
FourMomentum_imul(h, self, scalar) == FourMomentum_mul(h, self, scalar)

\* the operands a program starts with
Operands ==
    { from_x_y_z_m(3, 4, 0, 0), from_x_y_z_m(0, 3, 3, 0),
      from_x_y_z_m(3, -4, 0, 5), from_x_y_z_m(-4, 0, 3, 0) }

\* a and b are two objects; another holder keeps a reference to a's object
InitObjects ==
    /\ InitEvents
    /\ InitP4
    /\ InitArith
    /\ InitLep
    /\ InitLhe
    /\ InitColl
    /\ \E va \in Operands, vb \in Operands : objs = <<va, vb>>
    /\ names = [a |-> 1, b |-> 2, c |-> 0, held |-> 1]
    /\ fop = NoOperator

\* c = <expression>: c is bound when the expression returns
Evaluated(r, name, k) ==
    /\ Len(r.objs) <= MaxObjects
    /\ objs' = r.objs
    /\ names' = IF r.exc = "" THEN [names EXCEPT !.c = r.id] ELSE names
    /\ fop' = [name |-> name, k |-> k, id |-> r.id, exc |-> r.exc]
    /\ UNCHANGED <<eventVars, p4Vars, arithVars, lepVars, lheVars, collVars>>

\* a <op>= ...: a is rebound to what the method returns
Augmented(r, name, k) ==
    /\ Len(r.objs) <= MaxObjects
    /\ objs' = r.objs
    /\ names' = IF r.exc = "" THEN [names EXCEPT !.a = r.id] ELSE names
    /\ fop' = [name |-> name, k |-> k, id |-> r.id, exc |-> r.exc]
    /\ UNCHANGED <<eventVars, p4Vars, arithVars, lepVars, lheVars, collVars>>

ObjAdd == Evaluated(FourMomentum_add(objs, names.a, names.b), "add", 0)
ObjSub == Evaluated(FourMomentum_sub(objs, names.a, names.b), "sub", 0)
ObjNeg == Evaluated(FourMomentum_neg(objs, names.a), "neg", 0)
ObjMul(k) == Evaluated(FourMomentum_mul(objs, names.a, k), "mul", k)
ObjRMul(k) == Evaluated(FourMomentum_rmul(objs, names.a, k), "rmul", k)
ObjIAdd == Augmented(FourMomentum_iadd(objs, names.a, names.b), "iadd", 0)
ObjISub == Augmented(FourMomentum_isub(objs, names.a, names.b), "isub", 0)
ObjIMul(k) == Augmented(FourMomentum_imul(objs, names.a, k), "imul", k)

NextObjects ==
    \/ ObjAdd
    \/ ObjSub
    \/ ObjNeg
    \/ \E k \in Scalars : ObjMul(k)
    \/ \E k \in Scalars : ObjRMul(k)
    \/ ObjIAdd
    \/ ObjISub
    \/ \E k \in Scalars : ObjIMul(k)

SpecObjects == InitObjects /\ [][NextObjects]_vars

(* ------------------------------ leptons ------------------------------- *)
\* what the lepton constructors are called with, and the isolations assigned
LeptonP4s == { from_x_y_z_m(10, 20, 30, 0), from_x_y_z_m(3, 4, 0, 0) }
LeptonCodes == {11, -13, 15}
Charges == {-2, -1, 0, 1, 2}
Isolations == {0, 1, 7}

InitLeptons ==
    /\ InitEvents
    /\ InitP4
    /\ InitArith
    /\ InitObjs
    /\ InitLep
    /\ InitLhe
    /\ InitColl

\* l = Lepton(...), Electron(...) or Muon(...): l is bound when the
\* constructor returns
Made(r, call) ==
    /\ lepton' = IF r.ok THEN r.v ELSE lepton
    /\ bound' = (r.ok \/ bound)
    /\ assigned' = (~r.ok /\ assigned)
    /\ lop' = [call EXCEPT !.name = "new", !.exc = r.exc]
    /\ UNCHANGED <<eventVars, p4Vars, arithVars, objVars, lheVars, collVars>>

NewLepton(v, code, charge) ==
    Made(Lepton(v, code, charge),
         [NoLeptonCall EXCEPT !.cls = "Lepton", !.pdgID = code, !.charge = charge])
NewElectron(v, charge) ==
    Made(Electron(v, charge),
         [NoLeptonCall EXCEPT !.cls = "Electron", !.charge = charge])
NewMuon(v, charge) ==
    Made(Muon(v, charge),
         [NoLeptonCall EXCEPT !.cls = "Muon", !.charge = charge])

\* l.isolation = value
SetIsolation(value) ==
    /\ bound
    /\ lepton' = set_isolation(lepton, value)
    /\ assigned' = TRUE
    /\ lop' = [NoLeptonCall EXCEPT !.name = "set_isolation", !.value = value]
    /\ UNCHANGED bound
    /\ UNCHANGED <<eventVars, p4Vars, arithVars, objVars, lheVars, collVars>>

\* l.isolation
GetIsolation ==
    /\ bound
    /\ LET r == get_isolation(lepton)
       IN  lop' = [NoLeptonCall EXCEPT !.name = "get_isolation",
                                       !.got = IF r.ok THEN r.v ELSE 0,
                                       !.exc = r.exc]
    /\ UNCHANGED <<lepton, bound, assigned>>
    /\ UNCHANGED <<eventVars, p4Vars, arithVars, objVars, lheVars, collVars>>

NextLeptons ==
    \/ \E v \in LeptonP4s, code \in LeptonCodes, charge \in Charges :
          NewLepton(v, code, charge)
    \/ \E v \in LeptonP4s, charge \in Charges : NewElectron(v, charge)
    \/ \E v \in LeptonP4s, charge \in Charges : NewMuon(v, charge)
    \/ \E value \in Isolations : SetIsolation(value)
    \/ GetIsolation

SpecLeptons == InitLeptons /\ [][NextLeptons]_vars

(* ------------------------ Les Houches event files --------------------- *)
\* number of elements of the file a reader is built from
MaxElems == 2

\* A line is a sequence of characters.
\* split_line: newlines removed, tabs turned into blanks, then the fields
\* between blanks, the empty ones dropped
RECURSIVE Words(_, _)
Words(l, cur) ==
    IF l = << >> THEN (IF cur = << >> THEN << >> ELSE <<cur>>)
    ELSE IF Head(l) = " "
         THEN (IF cur = << >> THEN Words(Tail(l), << >>)
               ELSE <<cur>> \o Words(Tail(l), << >>))
         ELSE Words(Tail(l), Append(cur, Head(l)))

split_line(l) ==
    LET kept == SelectSeq(l, LAMBDA ch : ch # "\n")
        spaced == [i \in 1..Len(kept) |-> IF kept[i] = "\t" THEN " " ELSE kept[i]]
    IN  Words(spaced, << >>)

\* int(field): ValueError unless the field is a decimal numeral
Digits == <<"0", "1", "2", "3", "4", "5", "6", "7", "8", "9">>
DigitValue(ch) == (CHOOSE i \in 1..10 : Digits[i] = ch) - 1
RECURSIVE Numeral(_, _)
Numeral(field, acc) ==
    IF field = << >> THEN acc
    ELSE Numeral(Tail(field), 10 * acc + DigitValue(Head(field)))
int(field) ==
    IF field # << >> /\ \A i \in 1..Len(field) : \E d \in 1..10 : Digits[d] = field[i]
    THEN Ok(Numeral(field, 0))
    ELSE Raise("ValueError")

\* '#' in line
HasHash(line) == \E i \in 1..Len(line) : line[i] = "#"

\* LHParticle.__init__: the fields of the line, which must be 13
LHParticle(raw_line) ==
    LET raw == split_line(raw_line)
    IN  IF Len(raw) # 13 THEN Raise("AssertionError") ELSE Ok([raw |-> raw])

\* the loop of parse_particle_lines: a line without '#' becomes a particle,
\* a line with one becomes the comment
RECURSIVE particle_lines_loop(_, _)
particle_lines_loop(self, raw_lines) ==
    IF raw_lines = << >> THEN Ok(self)
    ELSE LET line == Head(raw_lines)
         IN  IF ~HasHash(line)
             THEN LET q == LHParticle(line)
                  IN  IF ~q.ok THEN q
                      ELSE particle_lines_loop(
                               [self EXCEPT !.particles = Append(@, q.v)],
                               Tail(raw_lines))
             ELSE particle_lines_loop(
                      [[self EXCEPT !.hasComment = TRUE] EXCEPT !.comment = line],
                      Tail(raw_lines))

\* LHEvent.nup: int(self.raw[0])
nup(self) == int(self.raw[1])

\* a faulty parse_particle_lines that does not compare the count with nup
parse_particle_lines_uncounted(self, raw_lines) ==
    particle_lines_loop(self, raw_lines)

\* parse_particle_lines: the loop, then assert(self.nup() == len(self.particles))
parse_particle_lines(self, raw_lines) ==
    LET r == particle_lines_loop(self, raw_lines)
    IN  IF ~r.ok THEN r
        ELSE LET n == nup(r.v)
             IN  IF ~n.ok THEN n
                 ELSE IF n.v # Len(r.v.particles) THEN Raise("AssertionError")
                 ELSE r

\* parse_header: the fields of the header, which must be 6
parse_header(self, raw_header) ==
    LET raw == split_line(raw_header)
    IN  IF Len(raw) # 6 THEN Raise("AssertionError")
        ELSE Ok([self EXCEPT !.raw = raw])

\* LHEvent.__init__
LHEvent(raw_header, raw_lines) ==
    LET self == [raw |-> << >>, particles |-> << >>,
                 hasComment |-> FALSE, comment |-> << >>]
        h == parse_header(self, raw_header)
    IN  IF ~h.ok THEN h ELSE parse_particle_lines(h.v, raw_lines)

\* lines written for the files of the model
RECURSIVE Joined(_, _)
Joined(words, sep) ==
    IF Len(words) <= 1 THEN (IF words = << >> THEN << >> ELSE Head(words))
    ELSE Head(words) \o sep \o Joined(Tail(words), sep)
Repeated(word, n) == [i \in 1..n |-> word]

Header(n) == Joined(<<<<n>>>> \o Repeated(<<"6", "6", "1">>, 5), <<" ">>)
HeaderOf5(n) == Joined(<<<<n>>>> \o Repeated(<<"0">>, 4), <<" ">>)
HeaderOf7(n) == Joined(<<<<n>>>> \o Repeated(<<"0">>, 6), <<" ">>)
ParticleLine == <<" ">> \o Joined(Repeated(<<"2", "1">>, 13), <<" ", " ">>)
TabbedLine == Joined(Repeated(<<"5">>, 13), <<"\t">>)
LineOf12 == Joined(Repeated(<<"5">>, 12), <<" ">>)
LineOf14 == Joined(Repeated(<<"5">>, 14), <<" ">>)
CommentLine == <<"#", " ", "p", "d", "f">>
ParticleLineWithHash == ParticleLine \o <<" ", "#", "b">>

\* the elements iterparse yields: the tag and the text, the text as the
\* lines between its newlines
Elem(tag, text) == [tag |-> tag, text |-> text]
Elems ==
    { Elem("init", <<ParticleLine>>),
      Elem("header", << >>),
      Elem("event", << << >>, Header("1"), ParticleLine, << >> >>),
      Elem("event", <<Header("2"), TabbedLine, CommentLine, ParticleLine>>),
      Elem("event", <<Header("0")>>),
      Elem("event", <<HeaderOf5("1"), ParticleLine>>),
      Elem("event", <<HeaderOf7("1"), ParticleLine>>),
      Elem("event", <<Header("1"), LineOf12>>),
      Elem("event", <<Header("1"), LineOf14>>),
      Elem("event", <<Header("2"), ParticleLine>>),
      Elem("event", <<Header("1"), ParticleLine, TabbedLine>>),
      Elem("event", <<Header("2"), ParticleLine, ParticleLineWithHash>>),
      Elem("event", <<Header("x"), ParticleLine>>),
      Elem("event", << << >>, << >> >>) }

RECURSIVE Files(_)
Files(n) ==
    IF n = 0 THEN { << >> }
    ELSE Files(n - 1) \cup { Append(f, e) : f \in Files(n - 1), e \in Elems }

\* LHEventReader(filename, max_events) entered, before the first element
InitReader ==
    /\ InitEvents
    /\ InitP4
    /\ InitArith
    /\ InitObjs
    /\ InitLep
    /\ InitColl
    /\ lheFile \in Files(MaxElems)
    /\ max_events \in {None, 1}
    /\ reader = NewReader
    /\ lhePos = 0
    /\ lheStatus = "reading"

\* one turn of the loop over the elements
ReadElement ==
    /\ lheStatus = "reading"
    /\ lhePos < Len(lheFile)
    /\ lhePos' = lhePos + 1
    /\ LET elem == lheFile[lhePos + 1]
           e == SelectSeq(elem.text, LAMBDA x : x # << >>)
       IN  IF elem.tag = "init"
           THEN /\ reader' = [[reader EXCEPT !.hasInit = TRUE]
                                EXCEPT !.init = elem.text]
                /\ lheStatus' = "reading"
           ELSE IF elem.tag = "event"
           THEN IF e = << >>
                THEN /\ lheStatus' = "IndexError"
                     /\ reader' = reader
                ELSE LET lhe == LHEvent(e[1], Tail(e))
                     IN  IF ~lhe.ok
                         THEN /\ lheStatus' = lhe.exc
                              /\ reader' = reader
                         ELSE /\ reader' = [reader EXCEPT !.events = Append(@, lhe.v)]
                              /\ lheStatus' =
                                     IF Len(reader'.events) = max_events
                                     THEN "returned" ELSE "reading"
           ELSE /\ reader' = reader
                /\ lheStatus' = "reading"
    /\ UNCHANGED <<lheFile, max_events>>
    /\ UNCHANGED <<eventVars, p4Vars, arithVars, objVars, lepVars, collVars>>

\* the elements are exhausted: the constructor returns
EndOfFile ==
    /\ lheStatus = "reading"
    /\ lhePos = Len(lheFile)
    /\ lheStatus' = "returned"
    /\ UNCHANGED <<lheFile, max_events, reader, lhePos>>
    /\ UNCHANGED <<eventVars, p4Vars, arithVars, objVars, lepVars, collVars>>

NextReader ==
    \/ ReadElement
    \/ EndOfFile

SpecReader == InitReader /\ [][NextReader]_vars

(* --------------------------- EventCollection -------------------------- *)
\* number of entries the model lets a store grow to
MaxStored == 6
\* add_event saves when events_since_save exceeds this number.  The code
\* has 10000; the model runs the same code with a small number, so that
\* the save is reached.
SaveThreshold == 3

Max(S) == CHOOSE m \in S : \A k \in S : k <= m

\* a faulty new_key: the largest key itself
new_key_last(self) ==
    IF DOMAIN self.store # {} THEN Max(DOMAIN self.store) ELSE 0

\* new_key: max(self.store.keys())+1 if self.store.keys() else 0
new_key(self) ==
    IF DOMAIN self.store # {} THEN Max(DOMAIN self.store) + 1 ELSE 0

\* self.store[key] = event
Stored(store, key, event) ==
    [k \in DOMAIN store \cup {key} |-> IF k = key THEN event ELSE store[k]]

\* a faulty add_event that saves as soon as the counter reaches the number
add_event_early(self, cmt, event) ==
    LET put == [[self EXCEPT !.store = Stored(self.store, new_key(self), event)]
                  EXCEPT !.events_since_save = @ + 1]
    IN  IF put.events_since_save >= SaveThreshold
        THEN [self |-> [put EXCEPT !.events_since_save = 0], committed |-> put.store]
        ELSE [self |-> put, committed |-> cmt]

\* add_event: store under new_key(), count, and past the threshold reset
\* the counter and save(), which is transaction.commit()
add_event(self, cmt, event) ==
    LET put == [[self EXCEPT !.store = Stored(self.store, new_key(self), event)]
                  EXCEPT !.events_since_save = @ + 1]
    IN  IF put.events_since_save > SaveThreshold
        THEN [self |-> [put EXCEPT !.events_since_save = 0], committed |-> put.store]
        ELSE [self |-> put, committed |-> cmt]

\* what is stored, and the roots of the files a collection is opened on:
\* a new file, files an EventCollection wrote, and one whose keys have a gap
StoredEvents == {"ev1", "ev2"}
Roots ==
    { EmptyStore,
      [k \in {0} |-> "ev1"],
      [k \in {0, 1} |-> "ev2"],
      [k \in {0, 3} |-> "ev1"] }

\* EventCollection(filename): open() on a file with one of the roots
InitStorage ==
    /\ InitEvents
    /\ InitP4
    /\ InitArith
    /\ InitObjs
    /\ InitLep
    /\ InitLhe
    /\ \E root \in Roots :
          /\ coll = Opened(root)
          /\ committed = root
    /\ sop = NoStoreCall

AddEvent(event) ==
    /\ Cardinality(DOMAIN coll.store) < MaxStored
    /\ LET r == add_event(coll, committed, event)
       IN  /\ coll' = r.self
           /\ committed' = r.committed
    /\ sop' = [name |-> "add_event", key |-> new_key(coll), event |-> event]
    /\ UNCHANGED <<eventVars, p4Vars, arithVars, objVars, lepVars, lheVars>>

\* save(): transaction.commit()
Save ==
    /\ committed' = coll.store
    /\ sop' = [NoStoreCall EXCEPT !.name = "save"]
    /\ UNCHANGED coll
    /\ UNCHANGED <<eventVars, p4Vars, arithVars, objVars, lepVars, lheVars>>

NextStorage ==
    \/ \E event \in StoredEvents : AddEvent(event)
    \/ Save

SpecStorage == InitStorage /\ [][NextStorage]_vars

(* ------------------------------ claims -------------------------------- *)
\* C1: the mass of a FourMomentum stays the mass it was constructed with
\* under every write through px, py, pz, p, energy, pt, phi, theta and
\* eta, whether the write returns or raises, and a write to mass raises
\* and leaves x, y, z and the mass as they were.
C1_MassImmutable ==
    /\ [](p4.m = m0)
    /\ [][p4op'.name = "mass" => (p4err' = "NotImplementedError" /\ p4' = p4)]_vars

\* C1 witness: a write to mass was refused on a vector that earlier writes
\* have moved and that still has its non-zero construction mass
C1_Witness ==
    /\ p4op.name = "mass"
    /\ p4err = "NotImplementedError"
    /\ p4.m = 5
    /\ p4.x = 5

(* helpers of the event claims *)
IsPrefix(s, t) == Len(s) <= Len(t) /\ SubSeq(t, 1, Len(s)) = s

\* the event the last call was made on, and its members
CalledEvent == events[op.ev]
CalledMembers == Members(heap, CalledEvent)

RECURSIVE SumX(_)
SumX(seq) == IF seq = << >> THEN 0 ELSE seq[Len(seq)].p4.x + SumX(SubSeq(seq, 1, Len(seq) - 1))
RECURSIVE SumY(_)
SumY(seq) == IF seq = << >> THEN 0 ELSE seq[Len(seq)].p4.y + SumY(SubSeq(seq, 1, Len(seq) - 1))
RECURSIVE SumZ(_)
SumZ(seq) == IF seq = << >> THEN 0 ELSE seq[Len(seq)].p4.z + SumZ(SubSeq(seq, 1, Len(seq) - 1))

\* the members a met over the exclusion list ign is to count
Contributing(ms, ign) ==
    LET Counts(q) == q.pdgID \notin ign IN SelectSeq(ms, Counts)

\* a member list with the sign of every species code flipped
Mirror(ms) == [i \in DOMAIN ms |-> [ms[i] EXCEPT !.pdgID = -ms[i].pdgID]]

\* C2: every member of a GenEvent carries a status attribute, however the
\* event was constructed and whatever was added to it.
C2_GenEventMembersHaveStatus ==
    \A e \in DOMAIN events :
        events[e].cls = "GenEvent" =>
            \A i \in DOMAIN Members(heap, events[e]) : Members(heap, events[e])[i].hasStatus

\* C3: GenEvent.add_particle of a particle without status raises ValueError
\* and leaves the members and the metadata as they were; of a particle with
\* a status it returns and the members are the old ones with it appended.
C3_GenEventAddParticle ==
    [][(op'.name = "add_particle" /\ events[op'.ev].cls = "GenEvent") =>
          /\ events' = events
          /\ IF op'.part.hasStatus
             THEN /\ err' = ""
                  /\ Members(heap', events'[op'.ev])
                        = Append(Members(heap, events[op'.ev]), op'.part)
             ELSE /\ err' = "ValueError"
                  /\ heap' = heap]_vars

\* C3 witness: a GenEvent that has a member refused a particle without status
C3_Witness ==
    /\ op.name = "add_particle"
    /\ CalledEvent.cls = "GenEvent"
    /\ ~op.part.hasStatus
    /\ err = "ValueError"
    /\ Len(CalledMembers) >= 1

\* C4: Event.add_particle always returns and appends the particle at the
\* end, and over every step of a program the members an event had are a
\* prefix of the members it has afterwards.
C4_AppendOnly ==
    [][/\ \A e \in DOMAIN events :
             /\ e \in DOMAIN events'
             /\ IsPrefix(Members(heap, events[e]), Members(heap', events'[e]))
       /\ (op'.name = "add_particle" /\ events[op'.ev].cls = "Event") =>
             /\ err' = ""
             /\ Members(heap', events'[op'.ev])
                   = Append(Members(heap, events[op'.ev]), op'.part)]_vars

\* C4 witness: a second, different particle was added to an Event
C4_Witness ==
    /\ op.name = "add_particle"
    /\ CalledEvent.cls = "Event"
    /\ err = ""
    /\ Len(CalledMembers) = 2
    /\ CalledMembers[2] = op.part
    /\ CalledMembers[1] # op.part

\* C5: Event.particles changes nothing, whatever it is called with, and
\* what it returns is the members that satisfy the selection function, in
\* insertion order (all the members without one): a function of the members
\* alone, so the same call made again before any add_particle returns the
\* same sequence.
C5_ParticlesPure ==
    [][op'.name = "particles" =>
          /\ heap' = heap
          /\ events' = events
          /\ callerLists' = callerLists
          /\ err' = "" =>
                LET ms == Members(heap, events[op'.ev])
                    Selected(q) == Call(op'.sel, q).ok /\ Call(op'.sel, q).v
                IN  /\ ret'.kind = "list"
                    /\ ret'.list = IF op'.sel = SelNone THEN ms
                                   ELSE SelectSeq(ms, Selected)]_vars

\* C5 witness: a selection function kept one of two members
C5_Witness ==
    /\ op.name = "particles"
    /\ op.sel # SelNone
    /\ err = ""
    /\ Len(CalledMembers) = 2
    /\ Len(ret.list) = 1

\* C6: add_particle on one event changes neither the members of another
\* event nor a list the caller holds.
C6_EventOwnsMembers ==
    [][op'.name = "add_particle" =>
          /\ \A e \in DOMAIN events \ {op'.ev} :
                Members(heap', events'[e]) = Members(heap, events[e])
          /\ \A l \in callerLists : heap'[l] = heap[l]]_vars

\* C7: Event.met returns the negative of the vector sum of the members whose
\* species code is not in the exclusion list, the zero vector when there is
\* none.
C7_MetIsNegativeSum ==
    (op.name = "met" /\ CalledEvent.cls = "Event" /\ err = "") =>
        LET counted == Contributing(CalledMembers, op.ign)
        IN  /\ ret.p4.x = -SumX(counted)
            /\ ret.p4.y = -SumY(counted)
            /\ ret.p4.z = -SumZ(counted)

\* C8: met ignores the sign of the species code: the result is the one the
\* same members give with the sign of every code flipped.
C8_MetIgnoresSign ==
    (op.name = "met" /\ err = "") =>
        LET h == [i \in DOMAIN heap |-> Mirror(heap[i])]
            r == IF CalledEvent.cls = "GenEvent"
                 THEN GenEvent_met(h, CalledEvent, op.ign)
                 ELSE Event_met(h, CalledEvent, op.ign)
        IN  r.ok /\ r.v = ret.p4

\* C9: GenEvent.met counts the members with status 1 whose species code is
\* not in the exclusion list and no others: its result is the sum over that
\* sub-sequence, and the exclusion list is its only argument.
C9_GenMetFinalStateOnly ==
    (op.name = "met" /\ CalledEvent.cls = "GenEvent" /\ err = "") =>
        LET Final(q) == q.hasStatus /\ q.status = 1 /\ q.pdgID \notin op.ign
            final == SelectSeq(CalledMembers, Final)
            whole == sum([i \in DOMAIN final |-> final[i].p4], FourMomentum)
        IN  /\ ret.p4.x \in {SumX(final), -SumX(final)}
            /\ ret.p4.y \in {SumY(final), -SumY(final)}
            /\ ret.p4.z \in {SumZ(final), -SumZ(final)}
            /\ whole.ok
            /\ ret.p4 = whole.v

\* C9 witness: met of a GenEvent with a counted member of status 1 and a
\* member of another status
C9_Witness ==
    /\ op.name = "met"
    /\ CalledEvent.cls = "GenEvent"
    /\ err = ""
    /\ \E i \in DOMAIN CalledMembers :
          /\ CalledMembers[i].hasStatus
          /\ CalledMembers[i].status # 1
          /\ CalledMembers[i].pdgID \notin op.ign
    /\ \E i \in DOMAIN CalledMembers :
          /\ CalledMembers[i].hasStatus
          /\ CalledMembers[i].status = 1
          /\ CalledMembers[i].pdgID \notin op.ign

\* C10: particles_with_pdgID(code) returns, in insertion order, the members
\* whose species code has absolute value code; a member of code c and one of
\* code -c are both returned when c is asked for.
C10_ParticlesWithPdgID ==
    op.name = "particles_with_pdgID" =>
        LET Wanted(q) == Abs(q.pdgID) = op.code
        IN  /\ err = ""
            /\ ret.kind = "list"
            /\ ret.list = SelectSeq(CalledMembers, Wanted)
            /\ op.code >= 0 =>
                  \A i \in DOMAIN CalledMembers :
                      CalledMembers[i].pdgID \in {op.code, -op.code} =>
                          \E j \in DOMAIN ret.list : ret.list[j] = CalledMembers[i]

\* C10 witness: the query 11 returned a member of code 11 and one of code -11
C10_Witness ==
    /\ op.name = "particles_with_pdgID"
    /\ op.code = 11
    /\ Len(ret.list) = 2
    /\ ret.list[1].pdgID = -ret.list[2].pdgID

\* C11: electrons() returns and gives the members whose species code is 11
\* or -11, and muons() returns and gives those of code 13 or -13.
C11_LeptonQueries ==
    op.name \in {"electrons", "muons"} =>
        LET code == IF op.name = "electrons" THEN 11 ELSE 13
            Wanted(q) == Abs(q.pdgID) = code
        IN  /\ err = ""
            /\ ret.kind = "list"
            /\ ret.list = SelectSeq(CalledMembers, Wanted)

\* an angle read back is the angle asked for (the same direction)
SameAngle(a, b) == a.c * b.s = a.s * b.c /\ a.c * b.c + a.s * b.s > 0
\* an eta read back is the eta asked for (the same ratio)
SameEta(g, h) == g.n * h.d = g.d * h.n

\* C12: a + b returns, its px, py, pz are the sums of the operands'
\* components and its energy is the sum of their energies (up to the one
\* unit the square root of the re-derived mass may round away).
C12_Add ==
    aop.name = "add" =>
        /\ aret.ok
        /\ px(aret.v) = px(a4) + px(b4)
        /\ py(aret.v) = py(a4) + py(b4)
        /\ pz(aret.v) = pz(a4) + pz(b4)
        /\ energy(a4) + energy(b4) - energy(aret.v) \in {0, 1}

\* C13: a * k and k * a return, with px, py, pz equal to k times the ones of
\* a and energy equal to k times the energy of a, for k of either sign (up
\* to the one unit the square root of the re-derived mass may round away).
C13_ScalarMul ==
    aop.name \in {"mul", "rmul"} =>
        /\ aret.ok
        /\ px(aret.v) = aop.k * px(a4)
        /\ py(aret.v) = aop.k * py(a4)
        /\ pz(aret.v) = aop.k * pz(a4)
        /\ aop.k * energy(a4) - energy(aret.v) \in {0, 1}

\* C14: from_x_y_z_m(x, y, z, m) reads back px = x, py = y, pz = z and
\* mass = m, and a FourMomentum rebuilt from the px, py, pz and mass of one
\* made by any constructor is equal to it under ==.
C14_CartesianRoundTrip ==
    /\ aop.name = "from_x_y_z_m" =>
          /\ aret.ok
          /\ a4 = aret.v
          /\ px(a4) = aop.x
          /\ py(a4) = aop.y
          /\ pz(a4) = aop.z
          /\ mass(a4) = aop.w
    /\ aop.name = "rebuild" => (aret.ok /\ eq(aret.v, a4))

\* C14 witness: a vector that only an angular constructor gives (z = 6 is
\* 5*tan(theta)), with a mass, was rebuilt from its own components
C14_Witness ==
    /\ aop.name = "rebuild"
    /\ a4.z = 6
    /\ a4.x = 4
    /\ a4.m = 5
    /\ eq(aret.v, a4)

\* C15: a write energy = V with V < 0, or with V*V < mass*mass, raises
\* ValueError and leaves x, y, z and the mass as they were.
C15_EnergyRejects ==
    [][(/\ p4op'.name = "energy"
        /\ (p4op'.value < 0 \/ p4op'.value * p4op'.value < mass(p4) * mass(p4)))
       => (p4err' = "ValueError" /\ p4' = p4)]_vars

\* C15 witness: a non-negative energy below the mass was refused on a vector
\* with momentum
C15_Witness ==
    /\ p4op.name = "energy"
    /\ p4op.value = 5
    /\ mass(p4) = 12
    /\ p(p4) = 5
    /\ p4err = "ValueError"

\* the azimuth of new is that of the direction (c, s): no component has
\* changed sign and the larger one is still the larger
Along(new, c, s) ==
    /\ new.x * c >= 0
    /\ new.y * s >= 0
    /\ Abs(c) > Abs(s) => Abs(new.x) >= Abs(new.y)
    /\ Abs(s) > Abs(c) => Abs(new.y) >= Abs(new.x)

\* C16: a write energy = V with V >= mass returns, whatever the vector, also
\* one with no momentum; the mass stays, no component changes sign and the
\* momentum does not exceed sqrt(V*V - mass*mass).
C16_EnergyWrite ==
    [][(p4op'.name = "energy" /\ p4op'.value >= mass(p4) /\ mass(p4) >= 0)
       => /\ p4err' = ""
          /\ mass(p4') = mass(p4)
          /\ p4'.x * p4.x >= 0 /\ p4'.y * p4.y >= 0 /\ p4'.z * p4.z >= 0
          /\ p(p4') * p(p4') <= p4op'.value * p4op'.value - mass(p4) * mass(p4)]_vars

\* C17: a write pt = V with V < 0 raises and changes nothing; with V > 0 on
\* a vector with transverse momentum it returns, the mass and the azimuth
\* stay and pt does not exceed V.
C17_PtWrite ==
    [][p4op'.name = "pt" =>
          IF p4op'.value < 0
          THEN p4err' = "ValueError" /\ p4' = p4
          ELSE (p4op'.value > 0 /\ pt(p4) > 0) =>
                  /\ p4err' = ""
                  /\ mass(p4') = mass(p4)
                  /\ Along(p4', p4.x, p4.y)
                  /\ pt(p4') <= p4op'.value]_vars

\* C18: a write phi = v returns and leaves pz and the mass alone, pt does not
\* grow, and on a vector with transverse momentum the azimuth is v.
C18_PhiWrite ==
    [][p4op'.name = "phi" =>
          /\ p4err' = ""
          /\ pz(p4') = pz(p4)
          /\ mass(p4') = mass(p4)
          /\ pt(p4') <= pt(p4)
          /\ pt(p4) > 0 => Along(p4', p4op'.angle.c, p4op'.angle.s)]_vars

\* C19: a write p = V with V >= 0 on a vector with momentum returns, and the
\* mass, the azimuth and the sign of pz stay.
C19_PWrite ==
    [][(p4op'.name = "p" /\ p4op'.value >= 0 /\ p(p4) > 0) =>
          /\ p4err' = ""
          /\ mass(p4') = mass(p4)
          /\ p4'.z * p4.z >= 0
          /\ p4op'.value > 0 => Along(p4', p4.x, p4.y)]_vars

\* C20: a vector from an angular constructor called with pt > 0 reads back
\* the pt, the theta (or eta) and the phi it was given.
C20_AngularConstructors ==
    /\ (aop.name \in {"from_pt_theta_phi_m", "from_pt_theta_phi_e"}
           /\ aop.pT > 0 /\ aret.ok) =>
          /\ pt(aret.v) = aop.pT
          /\ theta(aret.v).ok
          /\ SameAngle(theta(aret.v).v, aop.theta)
          /\ SameAngle(phi(aret.v), aop.phi)
    /\ (aop.name \in {"from_pt_eta_phi_m", "from_pt_eta_phi_e"}
           /\ aop.pT > 0 /\ aret.ok) =>
          /\ pt(aret.v) = aop.pT
          /\ eta(aret.v).ok
          /\ SameEta(eta(aret.v).v, aop.eta)
          /\ SameAngle(phi(aret.v), aop.phi)

\* C21: the arithmetic operators are pure.  a + b, a - b, -a, a * k, k * a
\* and the methods behind a += b, a -= b, a *= k leave x, y, z and the mass
\* of every object that existed before the operation as they were, and what
\* they return is an object that did not exist before; so the holder of
\* another reference to a's object sees the same values after every one of
\* them.
Operators == {"add", "sub", "neg", "mul", "rmul", "iadd", "isub", "imul"}
C22_IsolationUnsetUntilAssigned ==
    lop.name = "get_isolation" =>
        IF assigned THEN lop.exc = "" /\ lop.got = lepton.isolation
        ELSE lop.exc # ""

\* C23: constructing a Lepton, an Electron or a Muon with a charge other
\* than -1 and 1 raises ValueError and binds no particle; with charge -1 or
\* 1 it returns a particle of that charge, of code 11 for an Electron and
\* 13 for a Muon.
C23_LeptonCharge ==
    [][lop'.name = "new" =>
          IF lop'.charge \in {-1, 1}
          THEN /\ lop'.exc = ""
               /\ bound'
               /\ lepton'.charge = lop'.charge
               /\ lop'.cls = "Electron" => lepton'.pdgID = 11
               /\ lop'.cls = "Muon" => lepton'.pdgID = 13
               /\ lop'.cls = "Lepton" => lepton'.pdgID = lop'.pdgID
          ELSE /\ lop'.exc = "ValueError"
               /\ lepton' = lepton
               /\ bound' = bound]_vars

\* Muon(p4, 2) raised before any lepton was constructed: none exists
C23_Witness ==
    /\ lop.name = "new"
    /\ lop.cls = "Muon"
    /\ lop.charge = 2
    /\ lop.exc = "ValueError"
    /\ ~bound

\* C24: the reader rejects malformed event records.  When the header of an
\* event element does not have exactly 6 fields, or one of its particle
\* lines (the lines without '#') does not have exactly 13, or the count the
\* header declares is not the number of particle lines, the constructor
\* ends with an exception and nothing is appended to events; and every
\* event in events has 6 header fields, 13 fields in every particle and as
\* many particles as its header declares.
NonEmpty(text) == SelectSeq(text, LAMBDA x : x # << >>)
ParticleLines(text) == SelectSeq(Tail(NonEmpty(text)), LAMBDA x : ~HasHash(x))
Declared(text) == int(split_line(NonEmpty(text)[1])[1])
Malformed(text) ==
    \/ NonEmpty(text) = << >>
    \/ Len(split_line(NonEmpty(text)[1])) # 6
    \/ \E i \in 1..Len(ParticleLines(text)) :
          Len(split_line(ParticleLines(text)[i])) # 13
    \/ ~Declared(text).ok
    \/ Declared(text).v # Len(ParticleLines(text))
C24_MalformedRejected ==
    /\ [](\A i \in 1..Len(reader.events) :
             /\ Len(reader.events[i].raw) = 6
             /\ \A j \in 1..Len(reader.events[i].particles) :
                   Len(reader.events[i].particles[j].raw) = 13
             /\ nup(reader.events[i]).ok
             /\ nup(reader.events[i]).v = Len(reader.events[i].particles))
    /\ [][(lhePos' = lhePos + 1 /\ lheFile[lhePos'].tag = "event"
           /\ Malformed(lheFile[lhePos'].text))
          => (/\ reader'.events = reader.events
              /\ lheStatus' \in {"AssertionError", "ValueError", "IndexError"})]_vars

\* after one event was appended, an event that declares two particles and
\* has one is rejected with the assertion's exception
C24_Witness ==
    /\ lheStatus = "AssertionError"
    /\ lhePos = 2
    /\ Len(reader.events) = 1
    /\ lheFile[2] = Elem("event", <<Header("2"), ParticleLine>>)

\* C25: add_event stores the event under a key greater than every key the
\* store held before, 0 when it held none, and leaves every earlier entry
\* as it was.
C25_KeysIncrease ==
    [][sop'.name = "add_event" =>
          /\ \A k \in DOMAIN coll.store : sop'.key > k
          /\ DOMAIN coll.store = {} => sop'.key = 0
          /\ DOMAIN coll'.store = DOMAIN coll.store \cup {sop'.key}
          /\ coll'.store[sop'.key] = sop'.event
          /\ \A k \in DOMAIN coll.store : coll'.store[k] = coll.store[k]]_vars

\* an event was added to a store whose keys were 0 and 3: it is under 4
C25_Witness ==
    /\ sop.name = "add_event"
    /\ sop.key = 4
    /\ DOMAIN coll.store = {0, 3, 4}
    /\ coll.store[3] = "ev1"

\* C26: add_event commits and sets events_since_save to 0 exactly when the
\* incremented counter exceeds the threshold; after every add_event the
\* counter is between 0 and the threshold, and at most that many entries
\* added since the last commit, automatic or by save(), are uncommitted.
Uncommitted == { k \in DOMAIN coll.store : k \notin DOMAIN committed }
C26_AutoSave ==
    /\ [][sop'.name = "add_event" =>
             IF coll.events_since_save + 1 > SaveThreshold
             THEN coll'.events_since_save = 0 /\ committed' = coll'.store
             ELSE /\ coll'.events_since_save = coll.events_since_save + 1
                  /\ committed' = committed]_vars
    /\ [](/\ coll.events_since_save \in 0..SaveThreshold
          /\ Cardinality(Uncommitted) <= SaveThreshold
          /\ Cardinality(Uncommitted) <= coll.events_since_save)

\* the add that took the counter past the threshold has just committed
C26_Witness ==
    /\ sop.name = "add_event"
    /\ coll.events_since_save = 0
    /\ committed = coll.store
    /\ Cardinality(DOMAIN coll.store) = SaveThreshold + 1

====
